---- MODULE Spec2Model ----
(***************************************************************************)
(* Model of the typer's particle engine (michaelrehman/sine_grapher).      *)
(*                                                                         *)
(* JavaScript numbers are modelled in fixed point: a coordinate v is held  *)
(* as the integer v * SCALE.  A Math.random() result is held as its        *)
(* numerator over SCALE (0 .. SCALE-1).  Objects are held in a heap        *)
(* (id -> record) and the arrays of GLOBALS.circles hold ids, so that      *)
(* identity (indexOf) and in-place mutation behave as in the source.       *)
(***************************************************************************)
EXTENDS Integers, Sequences, FiniteSets, TLC

\* ------------------------------------------------------------------ bounds
\* fixed-point resolution of a coordinate (sixteenths of a canvas unit)
SCALE == 2 ^ 4
\* side of the glyph raster surface in the model (FONT_SIZE + 5 in the source)
RasterSide == 3
\* number of ambient circles created by init (CIRCLE_AMOUNT, 200 in source)
AmbientCount == 1
\* caps on the length of a run of the whole program
MaxKeys == 2
MaxFrames == 3
MaxResizes == 1
\* caps on the length of a typing session (no resize)
TypingKeys == 3
TypingFrames == 9

\* ------------------------------------------------------- program constants
AMBIENT == "AMBIENT"
ORBITING == "ORBITING"
TRAVELING == "TRAVELING"
CircleBehavior == {AMBIENT, ORBITING, TRAVELING}
\* the keys of GLOBALS.circles visited with TRAVELING ahead of ORBITING
CircleTypeOrder_TravelingFirst == <<AMBIENT, TRAVELING, ORBITING>>
\* for (const circleType in GLOBALS.circles): insertion order of the keys
CircleTypeOrder == <<AMBIENT, ORBITING, TRAVELING>>

RADIUS_BOUNDS_min == 1
RADIUS_BOUNDS_max == 3
SPEED_SCALAR == 5
\* rank of COLORS[i] under the string comparison used by the sort
COLORS == <<1, 4, 2, 3, 5>>
\* constants of typer/src/constants.js that Circle.js, Orbit and main import
THRESHOLD == 1
TRAVEL_FACTOR_x == 2
TRAVEL_FACTOR_y == 2
OFFSET == 6
ORBIT_TRAVEL_FACTOR_min == 1
ORBIT_TRAVEL_FACTOR_max == 5
\* SIN_VALUES / COS_VALUES: sin and cos of RADIANS, times 1024, rounded
TRIG_DEN == 2 ^ 10
SIN_VALUES == <<0, 512, 724, 887, 1024, 887, 724, 512,
                0, -512, -724, -887, -1024, -887, -724, -512>>
COS_VALUES == <<1024, 887, 724, 512, 0, -512, -724, -887,
                -1024, -887, -724, -512, 0, 512, 724, 887>>

\* ----------------------------------------------------------- arithmetic
Min(a, b) == IF a < b THEN a ELSE b
Max(a, b) == IF a > b THEN a ELSE b
Abs(a) == IF a < 0 THEN -a ELSE a
\* a / b rounded to the nearest representable value (b > 0)
RoundDiv(a, b) == (2 * a + b) \div (2 * b)
Range(s) == {s[i] : i \in 1..Len(s)}

\* Array.prototype.splice(start, deleteCount) without inserted items:
\* the array that remains
Splice(arr, start, deleteCount) ==
    LET len == Len(arr)
        s == IF start < 0 THEN Max(len + start, 0) ELSE Min(start, len)
        d == Min(Max(deleteCount, 0), len - s)
    IN SubSeq(arr, 1, s) \o SubSeq(arr, s + d + 1, len)

\* Array.prototype.indexOf (0-based, -1 when absent)
IndexOf(arr, e) ==
    IF \E i \in 1..Len(arr) : arr[i] = e
    THEN (CHOOSE i \in 1..Len(arr) : arr[i] = e /\ \A j \in 1..(i-1) : arr[j] # e) - 1
    ELSE -1

\* ------------------------------------------------- inputs of the model
\* window sizes the host can report (innerWidth, innerHeight), in pixels
Sizes == { [w |-> 520, h |-> 16], [w |-> 40, h |-> 32] }
\* Math.random(): the generator is a fixed stream of values chosen by its
\* seed; a value is held as its numerator over SCALE.  Each stream is
\* read cyclically.
Streams == << <<0, 0, 0, 12, 10, 0, 15, 1, 8, 0, 4>>,
             <<15, 1, 8, 3, 4, 7, 0, 0, 2, 12, 10, 5, 9>> >>
Seeds == 1..Len(Streams)
\* the k-th value (k = 0, 1, ...) the generator r returns from now on
Random(r, k) == Streams[r.seed][((r.pos + k) % Len(Streams[r.seed])) + 1]
\* the generator after k calls
Advance(r, k) == [r EXCEPT !.pos = (r.pos + k) % Len(Streams[r.seed])]
\* the six calls of one _createCircle, in the order the code makes them
CircleDraw(r) == [radius |-> Random(r, 0), x |-> Random(r, 1), y |-> Random(r, 2),
                  dx |-> Random(r, 3), dy |-> Random(r, 4), color |-> Random(r, 5)]
\* the three calls made when setBehavior creates an Orbit
OrbitDraw(r) == [radius |-> Random(r, 0), index |-> Random(r, 1), factor |-> Random(r, 2)]
NoDraw == [radius |-> 0, index |-> 0, factor |-> 0]
\* single-character keys the input source delivers
Chars == {"A", " "}
\* ALL_CHARS: the characters the CharacterMapper constructor precalculates
ALL_CHARS == {"A", "i"}

\* ------------------------------------------------------- CharacterMapper
pixelPresent == 1
pixelNotPresent == 0

\* fillText + getImageData: the red byte of every pixel of the raster
\* surface, row after row, after `character` was drawn (0-based row, column)
Ink(character, r, c) ==
    CASE character = "A" -> (r = 0 /\ c = 0) \/ (r = 1 /\ c = 2) \/ (r = 2 /\ c = 1)
      [] character = "i" -> (r = 1 /\ c = 1)
      [] character = "r" -> (r = 0 /\ c = 0) \/ (r = 0 /\ c = 1) \/ (r = 1 /\ c = 0)
      [] OTHER -> FALSE
ImageData(character) ==
    [i \in 1..(RasterSide * RasterSide) |->
        LET r == (i - 1) \div RasterSide
            c == (i - 1) % RasterSide
        IN IF Ink(character, r, c) THEN 255
           ELSE IF character = "A" /\ r = 0 /\ c = 1 THEN 128 ELSE 0]

\* _getArrayWidth: <<width, firstElementIndex>> (indices 0-based)
RECURSIVE WidthScan(_, _, _, _, _)
WidthScan(array, r, i, first, last) ==
    IF r > Len(array) THEN <<last - first + 1, first>>
    ELSE IF i > Len(array[r]) THEN WidthScan(array, r + 1, 1, first, last)
    ELSE LET elem == array[r][i] # 0
             idx == i - 1
         IN IF elem /\ (first < 0 \/ idx < first)
            THEN WidthScan(array, r, i + 1, idx, idx)
            ELSE IF elem /\ idx > last
            THEN WidthScan(array, r, i + 1, first, idx)
            ELSE WidthScan(array, r, i + 1, first, last)
GetArrayWidth(array) == WidthScan(array, 1, 1, -1, -1)

\* _trimExcess: every row spliced twice
TrimExcess(array) ==
    LET wf == GetArrayWidth(array)
        width == wf[1]
        first == wf[2]
    IN [r \in 1..Len(array) |->
          LET row1 == Splice(array[r], 0, first)
          IN Splice(row1, width, Len(row1))]

\* _convertTo2DArray: a row is pushed when the pixel after it is read
RECURSIVE ConvertScan(_, _, _, _)
ConvertScan(imageArray, i, currentRow, out) ==
    IF i > Len(imageArray) THEN out
    ELSE LET full == Len(currentRow) = RasterSide
             out2 == IF full THEN Append(out, currentRow) ELSE out
             row2 == IF full THEN <<>> ELSE currentRow
             bit == IF imageArray[i] = 255 THEN pixelPresent ELSE pixelNotPresent
         IN ConvertScan(imageArray, i + 1, Append(row2, bit), out2)
ConvertTo2DArray(imageArray) == TrimExcess(ConvertScan(imageArray, 1, <<>>, <<>>))

\* getArrayFor: the guard and the cache lookup; a key that is not a single
\* character is rejected (throws)
\* the guard letting every argument through
IsSingleCharacter_Any(key) == TRUE

KeyLength(key) ==
    CASE key = "" -> 0
      [] key = "Backspace" -> 9
      [] key = "Enter" -> 5
      [] key = "Shift" -> 5
      [] OTHER -> 1
IsSingleCharacter(key) == KeyLength(key) = 1
\* getArrayFor without the lookup in the cache: every call draws and
\* converts the character again
GetArrayFor_Redraw(cache, character) ==
    LET a == ConvertTo2DArray(ImageData(character))
    IN [array |-> a, rendered |-> TRUE,
        cache |-> [ch \in (DOMAIN cache) \cup {character} |->
                      IF ch = character THEN a ELSE cache[ch]]]

\* getArrayFor of a single character: the array returned, whether the
\* character was drawn (fillText, getImageData), and the cache afterwards
GetArrayFor(cache, character) ==
    IF character \in DOMAIN cache
    THEN [array |-> cache[character], rendered |-> FALSE, cache |-> cache]
    ELSE LET a == ConvertTo2DArray(ImageData(character))
         IN [array |-> a, rendered |-> TRUE,
             cache |-> [ch \in (DOMAIN cache) \cup {character} |->
                           IF ch = character THEN a ELSE cache[ch]]]
\* getArrayForAll, run by the constructor
GetArrayForAll == [ch \in ALL_CHARS |-> ConvertTo2DArray(ImageData(ch))]

\* ------------------------------------------------------------------ Orbit
\* a / b for a JavaScript division whose result is kept in fixed point
FixDiv(a, b) == IF a >= 0 THEN RoundDiv(a, b) ELSE -RoundDiv(-a, b)

Undefined == [defined |-> FALSE]
Point(x, y) == [defined |-> TRUE, x |-> x, y |-> y]

\* new Orbit({x, y, radius}); od holds the results of Math.random()
OrbitNew(x, y, radius, od) ==
    [defined |-> TRUE, x |-> x, y |-> y, radius |-> radius,
     currentAngleIndex |-> (od.index * Len(SIN_VALUES)) \div SCALE,
     travelFactor |->
        (od.factor * (ORBIT_TRAVEL_FACTOR_max - ORBIT_TRAVEL_FACTOR_min + 1)) \div SCALE
        + ORBIT_TRAVEL_FACTOR_min]

\* new Orbit({x, y, radius}) of typer/models/Orbit.js: the index starts at
\* 0 and the random field is travelFrames
OrbitNewFrames(x, y, radius, od) ==
    [defined |-> TRUE, x |-> x, y |-> y, radius |-> radius,
     currentAngleIndex |-> 0,
     travelFrames |-> (od.factor * 5) \div SCALE + 1]

\* the point of the orbit for the (0-based) angle index i
OrbitPoint(orbit, i) ==
    Point(orbit.x + FixDiv(COS_VALUES[i + 1] * orbit.radius, TRIG_DEN),
          orbit.y + FixDiv(SIN_VALUES[i + 1] * orbit.radius, TRIG_DEN))

\* followOrbit computing the point after the index was increased
FollowOrbit_NextPoint(orbit) ==
    LET next == orbit.currentAngleIndex + 1
        wrapped == IF next = Len(SIN_VALUES) THEN 0 ELSE next
    IN [point |-> OrbitPoint(orbit, wrapped),
        orbit |-> [orbit EXCEPT !.currentAngleIndex = wrapped]]

\* followOrbit wrapping one index early
FollowOrbit_ShortWrap(orbit) ==
    LET next == orbit.currentAngleIndex + 1
    IN [point |-> OrbitPoint(orbit, orbit.currentAngleIndex),
        orbit |-> [orbit EXCEPT !.currentAngleIndex =
                      IF next >= Len(SIN_VALUES) - 1 THEN 0 ELSE next]]

\* followOrbit: the point returned and the orbit after the call
FollowOrbit(orbit) ==
    LET next == orbit.currentAngleIndex + 1
    IN [point |-> OrbitPoint(orbit, orbit.currentAngleIndex),
        orbit |-> [orbit EXCEPT !.currentAngleIndex =
                      IF next = Len(SIN_VALUES) THEN 0 ELSE next]]

\* ----------------------------------------------------------------- Circle
MoveTo(circle, x, y) == [circle EXCEPT !.x = x, !.y = y]

SetDestination(circle, destinationCoordinates) ==
    [circle EXCEPT !.destination = destinationCoordinates]

\* setOrbit without the call of setDestination
SetOrbit_KeepDestination(circle, orbit) ==
    [circle EXCEPT !.orbit = FollowOrbit(orbit).orbit]

SetOrbit(circle, orbit) ==
    LET f == FollowOrbit(orbit)
    IN SetDestination([circle EXCEPT !.orbit = f.orbit], f.point)

\* names every object literal inherits from Object.prototype
InheritedNames == {"constructor", "toString"}
\* CircleBehavior[key]: the tag for a key of the frozen object, an inherited
\* member (a function: truthy, equal to no tag) for an inherited name,
\* undefined for anything else
CircleBehaviorAt(key) ==
    IF key \in CircleBehavior THEN key
    ELSE IF key \in InheritedNames THEN "function"
    ELSE "undefined"
\* the guard of setBehavior: throws when CircleBehavior[newBehavior] is falsy
SetBehaviorThrows(newBehavior) == CircleBehaviorAt(newBehavior) = "undefined"

\* setBehavior with the new orbit centred on the destination of the circle
SetBehavior_AtDestination(circle, newBehavior, setOrbit, od) ==
    LET c1 == IF newBehavior = ORBITING /\ setOrbit
              THEN SetOrbit(circle,
                      OrbitNew(circle.destination.x, circle.destination.y,
                               (od.radius * circle.radius) \div SCALE + 2 * SCALE, od))
              ELSE circle
    IN [c1 EXCEPT !.behavior = newBehavior]

\* setBehavior for a recognised tag; od: the Math.random() results used when
\* an orbit is created
SetBehavior(circle, newBehavior, setOrbit, od) ==
    LET c1 == IF newBehavior = ORBITING /\ setOrbit
              THEN SetOrbit(circle,
                      OrbitNew(circle.x, circle.y,
                               (od.radius * circle.radius) \div SCALE + 2 * SCALE, od))
              ELSE circle
    IN [c1 EXCEPT !.behavior = CircleBehaviorAt(newBehavior)]

\* new Circle(config) with config.behavior given
NewCircleAs(x, y, radius, dx, dy, color, behavior) ==
    SetBehavior([x |-> x, y |-> y, dx |-> dx, dy |-> dy, radius |-> radius,
                 color |-> color, behavior |-> "undefined",
                 destination |-> Undefined, orbit |-> Undefined],
                behavior, FALSE, NoDraw)

\* new Circle(config): behavior defaults to AMBIENT
NewCircle(x, y, radius, dx, dy, color) ==
    NewCircleAs(x, y, radius, dx, dy, color, AMBIENT)

\* _updateDY without the negation
UpdateDY_NoBounce(circle, min, max) == circle

UpdateDX(circle, min, max) ==
    IF circle.x + circle.radius >= max \/ circle.x - circle.radius <= min
    THEN [circle EXCEPT !.dx = -circle.dx] ELSE circle
UpdateDY(circle, min, max) ==
    IF circle.y + circle.radius >= max \/ circle.y - circle.radius <= min
    THEN [circle EXCEPT !.dy = -circle.dy] ELSE circle
UpdatePositionWithVelocity(circle) ==
    [circle EXCEPT !.x = circle.x + circle.dx, !.y = circle.y + circle.dy]

\* _handleAmbient adding the velocity ahead of the two checks
HandleAmbient_MoveFirst(circle, maxHorizontal, maxVertical) ==
    UpdateDY(UpdateDX(UpdatePositionWithVelocity(circle), 0, maxHorizontal),
             0, maxVertical)

\* _handleAmbient without its guard
HandleAmbientThrows_Never(maxHorizontal, maxVertical) == FALSE

\* _handleAmbient throws when a bound is falsy
HandleAmbientThrows(maxHorizontal, maxVertical) ==
    maxHorizontal = 0 \/ maxVertical = 0
HandleAmbient(circle, maxHorizontal, maxVertical) ==
    UpdatePositionWithVelocity(
        UpdateDY(UpdateDX(circle, 0, maxHorizontal), 0, maxVertical))

\* hasReacedDestination with a threshold no distance is under
HasReacedDestination_Never(circle) ==
    LET ex == Abs(circle.x - circle.destination.x)
        ey == Abs(circle.y - circle.destination.y)
    IN ex * ex + ey * ey < 0

HasReacedDestination(circle) ==
    LET ex == Abs(circle.x - circle.destination.x)
        ey == Abs(circle.y - circle.destination.y)
    IN ex * ex + ey * ey < (THRESHOLD * SCALE) * (THRESHOLD * SCALE)

\* the number JavaScript gives for n / undefined and for any arithmetic on
\* it: held as a value no coordinate takes
NaN == -(2 ^ 30)

\* _handleOrbiting asking the orbit for its next point in every update
HandleOrbiting_AlwaysNext(circle) ==
    LET dest == circle.destination
        orbit == circle.orbit
        moved == MoveTo(circle,
                    circle.x + FixDiv(dest.x - circle.x, orbit.travelFactor),
                    circle.y + FixDiv(dest.y - circle.y, orbit.travelFactor))
        f == FollowOrbit(orbit)
    IN [moved EXCEPT !.destination = f.point, !.orbit = f.orbit]

HandleOrbitingThrows(circle) == ~circle.orbit.defined
\* _handleOrbiting: an orbit object without the property travelFactor gives
\* (dest.x - x) / undefined; no comparison with NaN is true, so the
\* destination is then kept
HandleOrbiting(circle) ==
    LET dest == circle.destination
        orbit == circle.orbit
        moved == MoveTo(circle,
                    circle.x + FixDiv(dest.x - circle.x, orbit.travelFactor),
                    circle.y + FixDiv(dest.y - circle.y, orbit.travelFactor))
    IN IF "travelFactor" \notin DOMAIN orbit
       THEN MoveTo(circle, NaN, NaN)
       ELSE IF HasReacedDestination(moved)
       THEN LET f == FollowOrbit(orbit)
            IN [moved EXCEPT !.destination = f.point, !.orbit = f.orbit]
       ELSE moved

\* the move of _handleTraveling with the difference subtracted
TravelMove_Away(circle) ==
    LET dest == circle.destination
    IN MoveTo(circle,
              circle.x - FixDiv(dest.x - circle.x, TRAVEL_FACTOR_x),
              circle.y - FixDiv(dest.y - circle.y, TRAVEL_FACTOR_y))

HandleTravelingThrows(circle) == ~circle.destination.defined
\* the move of _handleTraveling (lines 142-145)
TravelMove(circle) ==
    LET dest == circle.destination
    IN MoveTo(circle,
              circle.x + FixDiv(dest.x - circle.x, TRAVEL_FACTOR_x),
              circle.y + FixDiv(dest.y - circle.y, TRAVEL_FACTOR_y))

\* ------------------------------------------------------------------ state
VARIABLES
    canvas,            \* GLOBALS.drawer._canvas: [w, h] = window.innerWidth/Height
    circles,           \* GLOBALS.circles: behavior tag -> array of Circle (ids)
    heap,              \* the Circle objects: id -> fields
    cursorPosition,    \* GLOBALS.cursorPosition: [x, y]
    removeCount,       \* the undo stack of the keydown handler
    alreadyCalculated, \* CharacterMapper._alreadyCalculated
    rafPending,        \* animation-frame callbacks requested and not yet run
    rng,               \* the state of Math.random(): [seed, pos]
    lastOp,            \* history: the handler that ran last and what it did
    history,           \* history: facts about the run so far
    budget             \* handlers the run may still execute, by kind

vars == <<canvas, circles, heap, cursorPosition, removeCount, alreadyCalculated,
          rafPending, rng, lastOp, history, budget>>

\* GLOBALS.canvasCenterY as set by init, in fixed point
canvasCenterY == (canvas.h * SCALE) \div 2

AllIds(cs) == Range(cs[AMBIENT]) \cup Range(cs[ORBITING]) \cup Range(cs[TRAVELING])

\* the k smallest object ids not in `used`, in increasing order
RECURSIVE FreshIds(_, _)
FreshIds(used, k) ==
    IF k = 0 THEN <<>>
    ELSE LET id == CHOOSE i \in 1..(Cardinality(used) + 1) : i \notin used /\
                       \A j \in 1..(i - 1) : j \in used
         IN <<id>> \o FreshIds(used \cup {id}, k - 1)

\* objects no array refers to any more are dropped from the heap
Collect(h, cs) == [id \in AllIds(cs) |-> h[id]]

\* the record of a handler run: its kind and key, the count it returned or
\* popped, GLOBALS.circles when it started, the circles a frame updated (in
\* order, with the array each was met in), the 'changedbehavior' events it
\* raised, those of the frame just before it, whether it threw, the
\* circles of the keystroke a backspace undoes, and the cursor position
\* when a keydown handler started, the array getArrayFor returned and whether
\* it drew the character to get it, and the arguments of a direct call of a
\* Circle method
NoOp == [kind |-> "init", key |-> "", count |-> 0, start |-> <<>>,
         updated |-> <<>>, events |-> <<>>, prevEvents |-> <<>>, threw |-> FALSE,
         tracked |-> FALSE, spawned |-> {}, cursor |-> [x |-> 0, y |-> 0],
         array |-> <<>>, rendered |-> FALSE, args |-> <<>>]

\* ------------------------------------------------------------ main.js
\* _calculateWithinBounds without the inset by `length`
CalculateWithinBounds_NoInset(bound, length, rnd) ==
    (rnd * bound) \div SCALE

\* _calculateWithinBounds(bound, length) with Math.random() = rnd / SCALE
CalculateWithinBounds(bound, length, rnd) ==
    (rnd * (bound - length * 2)) \div SCALE + length

\* _createCircle with the Math.random() results d
CreateCircle(size, d) ==
    LET radius == ((d.radius * (RADIUS_BOUNDS_max - RADIUS_BOUNDS_min + 1)) \div SCALE
                   + RADIUS_BOUNDS_min) * SCALE
    IN NewCircle(CalculateWithinBounds(size.w * SCALE, radius, d.x),
                 CalculateWithinBounds(size.h * SCALE, radius, d.y),
                 radius,
                 (d.dx - SCALE \div 2) * SPEED_SCALAR,
                 (d.dy - SCALE \div 2) * SPEED_SCALAR,
                 (d.color * Len(COLORS)) \div SCALE + 1)

\* the orders circles.sort(...) may leave the new circles in: descending by
\* the string order of their colors (the comparator never answers 0, so the
\* order of equal colors is the engine's choice)
SortedOrders(ids, h) ==
    { p \in [1..Len(ids) -> Range(ids)] :
        /\ \A i, j \in 1..Len(ids) : i # j => p[i] # p[j]
        /\ \A i \in 1..(Len(ids) - 1) :
              COLORS[h[p[i]].color] >= COLORS[h[p[i + 1]].color] }

\* _createCircles(CIRCLE_AMOUNT) as called by FUNCTIONS.init: the new objects
\* (the circles of the other arrays stay in the heap)
CreateCircles(cs, h, size, r) ==
    LET kept == [cs EXCEPT ![AMBIENT] = <<>>]
        ids == FreshIds(AllIds(kept), AmbientCount)
    IN [ids |-> ids,
        heap |-> [id \in AllIds(kept) \cup Range(ids) |->
                    IF id \in AllIds(kept) THEN h[id]
                    ELSE CreateCircle(size, CircleDraw(Advance(r, 6 * IndexOf(ids, id))))],
        rng |-> Advance(r, 6 * AmbientCount)]

\* the listener without the splice: the circle is only pushed
ChangedBehaviorListener_Keep(cs, circle, from, to) ==
    [cs EXCEPT ![to] = Append(cs[to], circle)]

\* the listener pushing onto the AMBIENT array whatever `to` is
ChangedBehaviorListener_ToAmbient(cs, circle, from, to) ==
    LET removed == [cs EXCEPT ![from] = Splice(cs[from], IndexOf(cs[from], circle), 1)]
    IN [removed EXCEPT ![AMBIENT] = Append(removed[AMBIENT], circle)]

\* no listener registered
ChangedBehaviorListener_Ignore(cs, circle, from, to) == cs

\* the 'changedbehavior' listener
ChangedBehaviorListener(cs, circle, from, to) ==
    LET circleIndex == IndexOf(cs[from], circle)
        removed == [cs EXCEPT ![from] = Splice(cs[from], circleIndex, 1)]
    IN [removed EXCEPT ![to] = Append(removed[to], circle)]

\* the detail if the event were dispatched after setBehavior
EventDetail_AfterSwitch(circle, id) == [circle |-> id, from |-> ORBITING, to |-> ORBITING]

\* the detail of the CustomEvent _handleTraveling dispatches
EventDetail(circle, id) == [circle |-> id, from |-> circle.behavior, to |-> ORBITING]

\* Circle.update({width, height}) for the circle `id`; st carries
\* GLOBALS.circles, the objects, Math.random() and the log of the updates;
\* an absent bound is held as 0 (both are falsy)
UpdateWith(st, type, id, bounds) ==
    LET circle == st.heap[id]
        logged == [st EXCEPT !.updated = Append(st.updated, [id |-> id, as |-> type])]
    IN CASE circle.behavior = AMBIENT ->
              IF HandleAmbientThrows(bounds.w, bounds.h)
              THEN [logged EXCEPT !.threw = TRUE]
              ELSE [logged EXCEPT !.heap[id] =
                       HandleAmbient(circle, bounds.w * SCALE, bounds.h * SCALE)]
         [] circle.behavior = ORBITING ->
              IF HandleOrbitingThrows(circle)
              THEN [logged EXCEPT !.threw = TRUE]
              ELSE [logged EXCEPT !.heap[id] = HandleOrbiting(circle)]
         [] circle.behavior = TRAVELING ->
              IF HandleTravelingThrows(circle)
              THEN [logged EXCEPT !.threw = TRUE]
              ELSE LET moved == TravelMove(circle)
                       detail == EventDetail(moved, id)
                   IN IF HasReacedDestination(moved)
                      THEN [logged EXCEPT
                              !.events = Append(st.events,
                                  [detail |-> detail, target |-> moved.destination,
                                   circleIndex |-> IndexOf(st.circles[detail.from], id)]),
                              !.circles = ChangedBehaviorListener(st.circles, detail.circle,
                                                                  detail.from, detail.to),
                              !.heap[id] = SetBehavior(moved, ORBITING, TRUE,
                                                       OrbitDraw(st.rng)),
                              !.rng = Advance(st.rng, 3)]
                      ELSE [logged EXCEPT !.heap[id] = moved]
         [] OTHER -> logged

\* circle.update(GLOBALS.drawer._canvas), called from the forEach over the
\* array `type`
UpdateCircle(st, type, id) == UpdateWith(st, type, id, canvas)

\* Array.prototype.forEach over GLOBALS.circles[type]: indices 0 .. len-1 of
\* the length at the call, each visited if the array still has it
RECURSIVE ForEach(_, _, _, _)
ForEach(st, type, i, len) ==
    IF i > len \/ st.threw THEN st
    ELSE IF i > Len(st.circles[type]) THEN ForEach(st, type, i + 1, len)
    ELSE ForEach(UpdateCircle(st, type, st.circles[type][i]), type, i + 1, len)

\* the for..in loop of FUNCTIONS.update
RECURSIVE ForIn(_, _)
ForIn(st, t) ==
    IF t > Len(CircleTypeOrder) \/ st.threw THEN st
    ELSE ForIn(ForEach(st, CircleTypeOrder[t], 1, Len(st.circles[CircleTypeOrder[t]])),
               t + 1)

Frame ==
    ForIn([circles |-> circles, heap |-> heap, rng |-> rng, updated |-> <<>>,
           events |-> <<>>, threw |-> FALSE], 1)

\* the true cells of a character array in the order drawCharacter meets them
CellsOf(charArray) ==
    LET RECURSIVE Scan(_, _, _)
        Scan(r, c, acc) ==
            IF r > Len(charArray) THEN acc
            ELSE IF c > Len(charArray[r]) THEN Scan(r + 1, 1, acc)
            ELSE Scan(r, c + 1,
                      IF charArray[r][c] # 0
                      THEN Append(acc, [r |-> r - 1, c |-> c - 1]) ELSE acc)
    IN Scan(1, 1, <<>>)

\* the circle of a cell without `circle.radius = 5`
CharacterCircle_KeepRadius(cell, d) ==
    LET circle == CreateCircle(canvas, d)
        xCoordinate == (0 + cell.c * OFFSET + cursorPosition.x) * SCALE
        yCoordinate == canvasCenterY \div 2
                       + (cell.r * OFFSET + cursorPosition.y) * SCALE
    IN SetBehavior(SetDestination(circle, Point(xCoordinate, yCoordinate)),
                   TRAVELING, FALSE, NoDraw)

\* the circle drawCharacter makes for the cell (r, c)
CharacterCircle(cell, d) ==
    LET circle == [CreateCircle(canvas, d) EXCEPT !.radius = 5 * SCALE]
        xCoordinate == (0 + cell.c * OFFSET + cursorPosition.x) * SCALE
        yCoordinate == canvasCenterY \div 2
                       + (cell.r * OFFSET + cursorPosition.y) * SCALE
    IN SetBehavior(SetDestination(circle, Point(xCoordinate, yCoordinate)),
                   TRAVELING, FALSE, NoDraw)

\* the cursor after drawCharacter drew charArray
AdvanceCursor(cursor, charArray, innerWidth) ==
    LET x == cursor.x + Len(charArray[1]) * 6
    IN IF Abs(innerWidth - x) <= 500
       THEN [x |-> 0, y |-> cursor.y + Len(charArray) * 8]
       ELSE [x |-> x, y |-> cursor.y]

\* the Backspace case with the splice at the front of the array
BackspaceOrbiting_Front(orbitingCircles, stack) ==
    IF Len(stack) = 0
    THEN Splice(orbitingCircles, 0, 0)
    ELSE Splice(orbitingCircles, 0, stack[Len(stack)])

\* the Backspace case: what is left of the ORBITING array
BackspaceOrbiting(orbitingCircles, stack) ==
    IF Len(stack) = 0
    THEN Splice(orbitingCircles, 0, 0)
    ELSE LET amountToRemove == stack[Len(stack)]
         IN Splice(orbitingCircles, Len(orbitingCircles) - amountToRemove, amountToRemove)

\* Array.prototype.pop
Pop(stack) == IF Len(stack) = 0 THEN stack ELSE SubSeq(stack, 1, Len(stack) - 1)

\* ---------------------------------------------------------------- actions
EmptyCircles == [t \in CircleBehavior |-> <<>>]

\* nothing has happened yet: no keystroke whose circles are tracked, no
\* circle discarded by a backspace, no 'changedbehavior' event, no frame
NoHistory == [valid |-> FALSE, spawned |-> {}, discarded |-> 0, notified |-> 0,
              frames |-> 0, origin |-> Undefined]

\* the state after the module ran FUNCTIONS.init() in a window of one of the
\* `sizes`; FUNCTIONS.update() is about to run the first frame
InitWith(sizes, b) ==
    \E size \in sizes, seed \in Seeds :
        LET made == CreateCircles(EmptyCircles, <<>>, size, [seed |-> seed, pos |-> 0])
        IN \E order \in SortedOrders(made.ids, made.heap) :
            /\ canvas = size
            /\ circles = [EmptyCircles EXCEPT ![AMBIENT] = order]
            /\ heap = made.heap
            /\ rng = made.rng
            /\ cursorPosition = [x |-> 0, y |-> 0]
            /\ removeCount = <<>>
            /\ alreadyCalculated = GetArrayForAll
            /\ rafPending = 1
            /\ lastOp = NoOp
            /\ history = NoHistory
            /\ budget = b

NoBudget == [keys |-> 0, frames |-> 0, resizes |-> 0, dispatches |-> 0, calls |-> 0]

Init == InitWith(Sizes, [NoBudget EXCEPT !.keys = MaxKeys, !.frames = MaxFrames,
                                         !.resizes = MaxResizes])

\* window 'resize' to one of `sizes`: FUNCTIONS.init
ResizeTo(sizes) ==
    /\ budget.resizes > 0
    /\ \E size \in sizes :
        LET made == CreateCircles(circles, heap, size, rng)
        IN \E order \in SortedOrders(made.ids, made.heap) :
            /\ canvas' = size
            /\ circles' = [circles EXCEPT ![AMBIENT] = order]
            /\ heap' = made.heap
            /\ rng' = made.rng
            /\ lastOp' = [NoOp EXCEPT !.kind = "resize", !.start = circles]
    /\ budget' = [budget EXCEPT !.resizes = @ - 1]
    /\ UNCHANGED <<cursorPosition, removeCount, alreadyCalculated, rafPending, history>>

Resize == ResizeTo(Sizes)

\* FUNCTIONS.update without the requestAnimationFrame call
Tick_NoRearm ==
    /\ rafPending > 0
    /\ budget.frames > 0
    /\ LET st == Frame
       IN /\ circles' = st.circles
          /\ heap' = st.heap
          /\ rng' = st.rng
          /\ rafPending' = rafPending - 1
          /\ lastOp' = [NoOp EXCEPT !.kind = "tick", !.start = circles,
                                    !.updated = st.updated, !.events = st.events,
                                    !.prevEvents = lastOp.events,
                                    !.threw = st.threw]
          /\ history' = [history EXCEPT !.notified = @ + Len(st.events),
                                        !.frames = @ + 1]
    /\ budget' = [budget EXCEPT !.frames = @ - 1]
    /\ UNCHANGED <<canvas, cursorPosition, removeCount, alreadyCalculated>>

\* one animation frame: FUNCTIONS.update
Tick ==
    /\ rafPending > 0
    /\ budget.frames > 0
    /\ LET st == Frame
       IN /\ circles' = st.circles
          /\ heap' = st.heap
          /\ rng' = st.rng
          /\ rafPending' = rafPending - 1 + (IF st.threw THEN 0 ELSE 1)
          /\ lastOp' = [NoOp EXCEPT !.kind = "tick", !.start = circles,
                                    !.updated = st.updated, !.events = st.events,
                                    !.prevEvents = lastOp.events,
                                    !.threw = st.threw]
          /\ history' = [history EXCEPT !.notified = @ + Len(st.events),
                                        !.frames = @ + 1]
    /\ budget' = [budget EXCEPT !.frames = @ - 1]
    /\ UNCHANGED <<canvas, cursorPosition, removeCount, alreadyCalculated>>

\* keydown with a single-character key: removeCount.push(drawCharacter(key))
KeyCharacter(key) ==
    /\ budget.keys > 0
    /\ IsSingleCharacter(key)
    /\ LET got == GetArrayFor(alreadyCalculated, key)
           cells == CellsOf(got.array)
           ids == FreshIds(AllIds(circles), Len(cells))
       IN /\ alreadyCalculated' = got.cache
          /\ circles' = [circles EXCEPT ![TRAVELING] = circles[TRAVELING] \o ids]
          /\ heap' = [id \in AllIds(circles) \cup Range(ids) |->
                        IF id \in AllIds(circles) THEN heap[id]
                        ELSE CharacterCircle(cells[IndexOf(ids, id) + 1],
                                             CircleDraw(Advance(rng, 6 * IndexOf(ids, id))))]
          /\ rng' = Advance(rng, 6 * Len(cells))
          /\ cursorPosition' = AdvanceCursor(cursorPosition, got.array, canvas.w)
          /\ removeCount' = Append(removeCount, Len(cells))
          /\ lastOp' = [NoOp EXCEPT !.kind = "character", !.key = key,
                                    !.count = Len(cells), !.start = circles,
                                    !.spawned = Range(ids),
                                    !.cursor = cursorPosition,
                                    !.array = got.array,
                                    !.rendered = got.rendered]
          /\ history' = [history EXCEPT !.valid = TRUE, !.spawned = Range(ids)]
    /\ budget' = [budget EXCEPT !.keys = @ - 1]
    /\ UNCHANGED <<canvas, rafPending>>

\* the Backspace case without the assignment of a new TRAVELING array
KeyBackspace_KeepTraveling ==
    /\ budget.keys > 0
    /\ LET cs == [circles EXCEPT ![ORBITING] = BackspaceOrbiting(circles[ORBITING],
                                                                 removeCount)]
       IN /\ circles' = cs
          /\ heap' = Collect(heap, cs)
    /\ removeCount' = Pop(removeCount)
    /\ cursorPosition' = [cursorPosition EXCEPT !.x = cursorPosition.x - 35 * 6]
    /\ lastOp' = [NoOp EXCEPT !.kind = "backspace", !.key = "Backspace",
                              !.count = IF Len(removeCount) = 0 THEN 0
                                        ELSE removeCount[Len(removeCount)],
                              !.start = circles,
                              !.tracked = history.valid, !.spawned = history.spawned,
                              !.cursor = cursorPosition]
    /\ history' = [history EXCEPT !.valid = FALSE, !.spawned = {},
                                  !.discarded = @ + Len(circles[TRAVELING])]
    /\ budget' = [budget EXCEPT !.keys = @ - 1]
    /\ UNCHANGED <<canvas, alreadyCalculated, rafPending, rng>>

\* keydown with key 'Backspace'
KeyBackspace ==
    /\ budget.keys > 0
    /\ LET cs == [circles EXCEPT ![TRAVELING] = <<>>,
                                 ![ORBITING] = BackspaceOrbiting(circles[ORBITING],
                                                                 removeCount)]
       IN /\ circles' = cs
          /\ heap' = Collect(heap, cs)
    /\ removeCount' = Pop(removeCount)
    /\ cursorPosition' = [cursorPosition EXCEPT !.x = cursorPosition.x - 35 * 6]
    /\ lastOp' = [NoOp EXCEPT !.kind = "backspace", !.key = "Backspace",
                              !.count = IF Len(removeCount) = 0 THEN 0
                                        ELSE removeCount[Len(removeCount)],
                              !.start = circles,
                              !.tracked = history.valid, !.spawned = history.spawned,
                              !.cursor = cursorPosition]
    /\ history' = [history EXCEPT !.valid = FALSE, !.spawned = {},
                                  !.discarded = @ + Len(circles[TRAVELING])]
    /\ budget' = [budget EXCEPT !.keys = @ - 1]
    /\ UNCHANGED <<canvas, alreadyCalculated, rafPending, rng>>

\* keydown with key 'Enter': the cursor moves to the next line, then the
\* switch falls through to drawCharacter('Enter'), which throws
KeyEnter ==
    /\ budget.keys > 0
    /\ cursorPosition' = [x |-> 0, y |-> cursorPosition.y + 34 * 12]
    /\ lastOp' = [NoOp EXCEPT !.kind = "enter", !.key = "Enter", !.start = circles,
                              !.cursor = cursorPosition,
                              !.threw = ~IsSingleCharacter("Enter")]
    /\ history' = [history EXCEPT !.valid = FALSE, !.spawned = {}]
    /\ budget' = [budget EXCEPT !.keys = @ - 1]
    /\ UNCHANGED <<canvas, circles, heap, removeCount, alreadyCalculated, rafPending, rng>>

\* keydown with any other key that is not a single character: the default
\* case calls drawCharacter, whose getArrayFor throws before push is called
KeyRejected(key) ==
    /\ budget.keys > 0
    /\ key \notin {"Backspace", "Enter"}
    /\ ~IsSingleCharacter(key)
    /\ lastOp' = [NoOp EXCEPT !.kind = "rejected", !.key = key, !.start = circles,
                              !.cursor = cursorPosition, !.threw = TRUE]
    /\ budget' = [budget EXCEPT !.keys = @ - 1]
    /\ UNCHANGED <<canvas, circles, heap, cursorPosition, removeCount,
                   alreadyCalculated, rafPending, rng, history>>

Next ==
    \/ Tick
    \/ Resize
    \/ \E key \in Chars : KeyCharacter(key)
    \/ KeyBackspace
    \/ KeyEnter

Spec == Init /\ [][Next]_vars

\* a typing session in the large window: characters and backspaces only
TypingChars == {"A", "i"}
InitTyping ==
    InitWith({[w |-> 520, h |-> 16]},
             [NoBudget EXCEPT !.keys = TypingKeys, !.frames = TypingFrames])
NextTyping ==
    \/ Tick
    \/ \E key \in TypingChars : KeyCharacter(key)
    \/ KeyBackspace
SpecTyping == InitTyping /\ [][NextTyping]_vars

\* one Circle driven by the frame loop: created TRAVELING at `start`, sent to
\* `dest` with setDestination, and held in the TRAVELING array
ParticleFrames == 8
ParticlePoints == {Point(0, 0), Point(10 * SCALE, 10 * SCALE), Point(3 * SCALE, 40 * SCALE)}
InitParticle ==
    \E start \in ParticlePoints, dest \in ParticlePoints, seed \in Seeds :
        /\ canvas = [w |-> 520, h |-> 16]
        /\ circles = [EmptyCircles EXCEPT ![TRAVELING] = <<1>>]
        /\ heap = <<SetDestination(
                       SetBehavior(NewCircle(start.x, start.y, 5 * SCALE, 0, 0, 1),
                                   TRAVELING, FALSE, NoDraw),
                       dest)>>
        /\ rng = [seed |-> seed, pos |-> 0]
        /\ cursorPosition = [x |-> 0, y |-> 0]
        /\ removeCount = <<>>
        /\ alreadyCalculated = GetArrayForAll
        /\ rafPending = 1
        /\ lastOp = NoOp
        /\ history = [NoHistory EXCEPT !.origin = [defined |-> TRUE, start |-> start,
                                                   dest |-> dest]]
        /\ budget = [NoBudget EXCEPT !.frames = ParticleFrames]
NextParticle == Tick
SpecParticle == InitParticle /\ [][NextParticle]_vars

\* the 'changedbehavior' listener driven with any detail: the arrays hold
\* some of the circles 1 .. ListenerCircles
ListenerCircles == 3
ListenerDispatches == 2
ArrayOf(place, t) ==
    LET RECURSIVE Build(_)
        Build(id) == IF id > ListenerCircles THEN <<>>
                     ELSE (IF place[id] = t THEN <<id>> ELSE <<>>) \o Build(id + 1)
    IN Build(1)
InitListener ==
    \E place \in [1..ListenerCircles -> CircleBehavior \cup {"none"}] :
        /\ canvas = [w |-> 520, h |-> 16]
        /\ circles = [t \in CircleBehavior |-> ArrayOf(place, t)]
        /\ heap = [id \in 1..ListenerCircles |->
                     IF place[id] = "none" THEN NewCircle(0, 0, SCALE, 0, 0, 1)
                     ELSE SetBehavior(NewCircle(0, 0, SCALE, 0, 0, 1), place[id],
                                      FALSE, NoDraw)]
        /\ rng = [seed |-> 1, pos |-> 0]
        /\ cursorPosition = [x |-> 0, y |-> 0]
        /\ removeCount = <<>>
        /\ alreadyCalculated = GetArrayForAll
        /\ rafPending = 1
        /\ lastOp = NoOp
        /\ history = NoHistory
        /\ budget = [NoBudget EXCEPT !.dispatches = ListenerDispatches]
\* window.dispatchEvent(new CustomEvent('changedbehavior', {detail}))
Dispatch(circle, from, to) ==
    /\ budget.dispatches > 0
    /\ circles' = ChangedBehaviorListener(circles, circle, from, to)
    /\ lastOp' = [NoOp EXCEPT !.kind = "dispatch", !.start = circles,
                              !.events = <<[detail |-> [circle |-> circle, from |-> from,
                                                        to |-> to],
                                            target |-> Undefined,
                                            circleIndex |-> IndexOf(circles[from], circle)]>>]
    /\ budget' = [budget EXCEPT !.dispatches = @ - 1]
    /\ UNCHANGED <<canvas, heap, cursorPosition, removeCount, alreadyCalculated,
                   rafPending, rng, history>>
NextListener ==
    \E circle \in 1..ListenerCircles, from \in CircleBehavior, to \in CircleBehavior :
        Dispatch(circle, from, to)
SpecListener == InitListener /\ [][NextListener]_vars

\* typing one character of three ink cells and undoing it while its circles
\* are arriving
UndoKeys == 2
UndoFrames == 8
InitUndo ==
    InitWith({[w |-> 520, h |-> 16]},
             [NoBudget EXCEPT !.keys = UndoKeys, !.frames = UndoFrames])
NextUndo ==
    \/ Tick
    \/ KeyCharacter("r")
    \/ KeyBackspace
SpecUndo == InitUndo /\ [][NextUndo]_vars

\* a long line typed in a wide window that may shrink: no frame runs
\* between the events
WrapKeys == 32
WrapSizes == { [w |-> 1200, h |-> 16], [w |-> 40, h |-> 32] }
InitWrap ==
    InitWith({[w |-> 1200, h |-> 16]},
             [NoBudget EXCEPT !.keys = WrapKeys, !.resizes = 1])
ResizeWrap == ResizeTo(WrapSizes)
NextWrap ==
    \/ KeyCharacter("A")
    \/ ResizeWrap
SpecWrap == InitWrap /\ [][NextWrap]_vars

\* the ambient circles of one init left to move in a window that keeps
\* its size
AmbientFrames == 30
InitAmbient == InitWith(Sizes, [NoBudget EXCEPT !.frames = AmbientFrames])
NextAmbient == Tick
SpecAmbient == InitAmbient /\ [][NextAmbient]_vars

\* one Orbit, of either version of the class, whose followOrbit is called
\* again and again; the points returned are logged in lastOp.updated
OrbitCalls == 33
OrbitRadii == {2 * SCALE, 5 * SCALE}
InitOrbit ==
    \E seed \in Seeds, pos \in 0..2, radius \in OrbitRadii, later \in BOOLEAN :
        LET od == OrbitDraw([seed |-> seed, pos |-> pos])
            orbit == IF later THEN OrbitNew(10 * SCALE, 20 * SCALE, radius, od)
                     ELSE OrbitNewFrames(10 * SCALE, 20 * SCALE, radius, od)
        IN /\ canvas = [w |-> 520, h |-> 16]
           /\ circles = EmptyCircles
           /\ heap = <<[NewCircle(10 * SCALE, 20 * SCALE, SCALE, 0, 0, 1)
                           EXCEPT !.orbit = orbit]>>
           /\ rng = [seed |-> seed, pos |-> pos]
           /\ cursorPosition = [x |-> 0, y |-> 0]
           /\ removeCount = <<>>
           /\ alreadyCalculated = GetArrayForAll
           /\ rafPending = 0
           /\ lastOp = NoOp
           /\ history = [NoHistory EXCEPT !.origin = [defined |-> TRUE, orbit |-> orbit]]
           /\ budget = [NoBudget EXCEPT !.calls = OrbitCalls]
\* orbit.followOrbit()
Follow ==
    /\ budget.calls > 0
    /\ LET f == FollowOrbit(heap[1].orbit)
       IN /\ heap' = [heap EXCEPT ![1].orbit = f.orbit]
          /\ lastOp' = [NoOp EXCEPT !.kind = "followOrbit",
                                    !.updated = Append(lastOp.updated, f.point)]
    /\ budget' = [budget EXCEPT !.calls = @ - 1]
    /\ UNCHANGED <<canvas, circles, cursorPosition, removeCount, alreadyCalculated,
                   rafPending, rng, history>>
NextOrbit == Follow
SpecOrbit == InitOrbit /\ [][NextOrbit]_vars

\* the CharacterMapper converting the image data of one glyph: every
\* black-and-white content of the raster surface
Images == [1..(RasterSide * RasterSide) -> {0, 255}]
InitRaster ==
    \E image \in Images :
        /\ canvas = [w |-> 520, h |-> 16]
        /\ circles = EmptyCircles
        /\ heap = <<>>
        /\ rng = [seed |-> 1, pos |-> 0]
        /\ cursorPosition = [x |-> 0, y |-> 0]
        /\ removeCount = <<>>
        /\ alreadyCalculated = <<>>
        /\ rafPending = 0
        /\ lastOp = NoOp
        /\ history = [NoHistory EXCEPT !.origin = [defined |-> TRUE, image |-> image]]
        /\ budget = [NoBudget EXCEPT !.calls = 1]
\* getArrayFor of a character not cached yet, whose drawing gives the image
Rasterize ==
    /\ budget.calls > 0
    /\ alreadyCalculated' = [ch \in {"glyph"} |-> ConvertTo2DArray(history.origin.image)]
    /\ lastOp' = [NoOp EXCEPT !.kind = "getArrayFor", !.key = "glyph",
                              !.array = ConvertTo2DArray(history.origin.image),
                              !.rendered = TRUE]
    /\ budget' = [budget EXCEPT !.calls = @ - 1]
    /\ UNCHANGED <<canvas, circles, heap, cursorPosition, removeCount, rafPending,
                   rng, history>>
NextRaster == Rasterize
SpecRaster == InitRaster /\ [][NextRaster]_vars

\* keystrokes only, of precalculated and of other characters: every
\* drawCharacter asks the CharacterMapper for the array of its key
CacheKeys == 4
CacheChars == {"A", "r", " "}
InitCache ==
    InitWith({[w |-> 520, h |-> 16]}, [NoBudget EXCEPT !.keys = CacheKeys])
NextCache == \E key \in CacheChars : KeyCharacter(key)
SpecCache == InitCache /\ [][NextCache]_vars

\* keystrokes of every kind the keydown handler tells apart, no frame in
\* between
HandlerKeys == 3
NamedKeys == {"Shift", ""}
InitKeys ==
    InitWith({[w |-> 520, h |-> 16]}, [NoBudget EXCEPT !.keys = HandlerKeys])
NextKeys ==
    \/ KeyCharacter("A")
    \/ KeyBackspace
    \/ KeyEnter
    \/ \E key \in NamedKeys : KeyRejected(key)
SpecKeys == InitKeys /\ [][NextKeys]_vars

\* one Circle used through its public methods: constructed with any of the
\* three tags and held in the array of that tag, then setBehavior,
\* setDestination and update are called with any arguments
CircleCalls == 3
BehaviorArgs == CircleBehavior \cup InheritedNames \cup {"REVOLVING", "undefined"}
CirclePoints == {Point(10 * SCALE, 10 * SCALE), Point(0, 0)}
NoBounds == [w |-> 0, h |-> 0]
UpdateBounds == {[w |-> 520, h |-> 16], [w |-> 520, h |-> 0], NoBounds}
InitCircle ==
    \E behavior \in CircleBehavior, seed \in Seeds :
        /\ canvas = [w |-> 520, h |-> 16]
        /\ circles = [EmptyCircles EXCEPT ![behavior] = <<1>>]
        /\ heap = <<NewCircleAs(10 * SCALE, 5 * SCALE, SCALE, 8, -8, 1, behavior)>>
        /\ rng = [seed |-> seed, pos |-> 0]
        /\ cursorPosition = [x |-> 0, y |-> 0]
        /\ removeCount = <<>>
        /\ alreadyCalculated = GetArrayForAll
        /\ rafPending = 0
        /\ lastOp = [NoOp EXCEPT !.kind = "new", !.args = <<behavior>>]
        /\ history = NoHistory
        /\ budget = [NoBudget EXCEPT !.calls = CircleCalls]
\* circle.setBehavior(newBehavior, setOrbit)
CallSetBehavior(newBehavior, setOrbit) ==
    /\ budget.calls > 0
    /\ IF SetBehaviorThrows(newBehavior)
       THEN /\ lastOp' = [NoOp EXCEPT !.kind = "setBehavior", !.threw = TRUE,
                                      !.args = <<newBehavior, setOrbit>>]
            /\ UNCHANGED <<heap, rng>>
       ELSE /\ heap' = [heap EXCEPT ![1] = SetBehavior(heap[1], newBehavior, setOrbit,
                                                       OrbitDraw(rng))]
            /\ rng' = IF newBehavior = ORBITING /\ setOrbit THEN Advance(rng, 3) ELSE rng
            /\ lastOp' = [NoOp EXCEPT !.kind = "setBehavior",
                                      !.args = <<newBehavior, setOrbit>>]
    /\ budget' = [budget EXCEPT !.calls = @ - 1]
    /\ UNCHANGED <<canvas, circles, cursorPosition, removeCount, alreadyCalculated,
                   rafPending, history>>
\* circle.setDestination(point)
CallSetDestination(point) ==
    /\ budget.calls > 0
    /\ heap' = [heap EXCEPT ![1] = SetDestination(heap[1], point)]
    /\ lastOp' = [NoOp EXCEPT !.kind = "setDestination", !.args = <<point>>]
    /\ budget' = [budget EXCEPT !.calls = @ - 1]
    /\ UNCHANGED <<canvas, circles, cursorPosition, removeCount, alreadyCalculated,
                   rafPending, rng, history>>
\* update returning normally whatever its handler found
CallUpdate_Silent(bounds) ==
    /\ budget.calls > 0
    /\ LET st == UpdateWith([circles |-> circles, heap |-> heap, rng |-> rng,
                             updated |-> <<>>, events |-> <<>>, threw |-> FALSE],
                            "direct", 1, bounds)
       IN /\ circles' = st.circles
          /\ heap' = st.heap
          /\ rng' = st.rng
          /\ lastOp' = [NoOp EXCEPT !.kind = "update", !.args = <<bounds>>,
                                    !.events = st.events, !.threw = FALSE]
    /\ budget' = [budget EXCEPT !.calls = @ - 1]
    /\ UNCHANGED <<canvas, cursorPosition, removeCount, alreadyCalculated,
                   rafPending, history>>
\* circle.update(bounds), or circle.update() when bounds = NoBounds
CallUpdate(bounds) ==
    /\ budget.calls > 0
    /\ LET st == UpdateWith([circles |-> circles, heap |-> heap, rng |-> rng,
                             updated |-> <<>>, events |-> <<>>, threw |-> FALSE],
                            "direct", 1, bounds)
       IN /\ circles' = st.circles
          /\ heap' = st.heap
          /\ rng' = st.rng
          /\ lastOp' = [NoOp EXCEPT !.kind = "update", !.args = <<bounds>>,
                                    !.events = st.events, !.threw = st.threw]
    /\ budget' = [budget EXCEPT !.calls = @ - 1]
    /\ UNCHANGED <<canvas, cursorPosition, removeCount, alreadyCalculated,
                   rafPending, history>>
NextCircle ==
    \/ \E newBehavior \in BehaviorArgs, setOrbit \in BOOLEAN :
          CallSetBehavior(newBehavior, setOrbit)
    \/ \E point \in CirclePoints : CallSetDestination(point)
    \/ \E bounds \in UpdateBounds : CallUpdate(bounds)
SpecCircle == InitCircle /\ [][NextCircle]_vars

\* one circle given an Orbit of either version of the class with setOrbit,
\* made Orbiting, held in the ORBITING array and driven by the frame loop
OrbitingFrames == 6
InitOrbiting ==
    \E seed \in Seeds, pos \in 0..2, radius \in OrbitRadii, later \in BOOLEAN :
        LET od == OrbitDraw([seed |-> seed, pos |-> pos])
            orbit == IF later THEN OrbitNew(10 * SCALE, 20 * SCALE, radius, od)
                     ELSE OrbitNewFrames(10 * SCALE, 20 * SCALE, radius, od)
        IN /\ canvas = [w |-> 520, h |-> 16]
           /\ circles = [EmptyCircles EXCEPT ![ORBITING] = <<1>>]
           /\ heap = <<SetBehavior(
                          SetOrbit(NewCircle(10 * SCALE, 20 * SCALE, SCALE, 0, 0, 1), orbit),
                          ORBITING, FALSE, NoDraw)>>
           /\ rng = [seed |-> seed, pos |-> pos]
           /\ cursorPosition = [x |-> 0, y |-> 0]
           /\ removeCount = <<>>
           /\ alreadyCalculated = GetArrayForAll
           /\ rafPending = 1
           /\ lastOp = NoOp
           /\ history = [NoHistory EXCEPT !.origin = [defined |-> TRUE, orbit |-> orbit]]
           /\ budget = [NoBudget EXCEPT !.frames = OrbitingFrames]
NextOrbiting == Tick
SpecOrbiting == InitOrbiting /\ [][NextOrbiting]_vars

\* ------------------------------------------------------------ sine grapher
\* A Bar is [height, nextHeight]. SIN_VALUES is held in units of 1/1024; the
\* heights are held in units of 1/10240, in which HEIGHT_THRESHOLD = 0.1 is
\* the integer 1024.
HEIGHT_UNITS == 10
HEIGHT_THRESHOLD == 1024
GROW_FRAMES == 5
BAR_AMOUNT == Len(SIN_VALUES)
\* BAR_GAP * RADIANS.length = 15 * 1.4 * 16
CYCLE_WIDTH == 336
\* the value undefined where a number is expected
UndefinedHeight == -(2 ^ 29)

\* SIN_VALUES[index] for a JavaScript index: undefined past the end
SinValue(index) ==
    IF index < Len(SIN_VALUES) THEN SIN_VALUES[index + 1] * HEIGHT_UNITS
    ELSE UndefinedHeight

\* the default of the nextHeight parameter in the two versions of the class
BarDefaults == {0, UndefinedHeight}
\* new Bar(height, nextHeight): an undefined argument takes the default
Bar(height, nextHeight, default) ==
    [height |-> height,
     nextHeight |-> IF nextHeight = UndefinedHeight THEN default ELSE nextHeight]

\* the loop of makeSinBars: nextSinValue is read after sinTracker++ and
\* before the reset of the next iteration
RECURSIVE MakeSinBarsLoop(_, _, _, _)
MakeSinBarsLoop(bars, sinTracker, amount, default) ==
    IF Len(bars) >= amount THEN bars
    ELSE LET tracker == IF sinTracker >= Len(SIN_VALUES) THEN 0 ELSE sinTracker
         IN MakeSinBarsLoop(
                Append(bars, Bar(SinValue(tracker), SinValue(tracker + 1), default)),
                tracker + 1, amount, default)
MakeSinBars(amount, default) == MakeSinBarsLoop(<<>>, 0, amount, default)

\* cyclesThatCanFit of init
CyclesThatCanFit(width) ==
    IF width \div CYCLE_WIDTH = 0 THEN 1 ELSE width \div CYCLE_WIDTH

\* shift() handing each nextHeight to the bar on the left
Shift_Left(bars) ==
    [i \in 1..Len(bars) |->
        [bars[i] EXCEPT !.nextHeight =
            IF i = Len(bars) THEN bars[1].nextHeight ELSE bars[i + 1].nextHeight]]

\* shift(): the loop runs from the right, so each bar reads the value its
\* left neighbour still has
Shift(bars) ==
    LET rightMostBarHeight == bars[Len(bars)].nextHeight
    IN [i \in 1..Len(bars) |->
           [bars[i] EXCEPT !.nextHeight =
               IF i = 1 THEN rightMostBarHeight ELSE bars[i - 1].nextHeight]]

\* Bar.grow that leaves the height alone
Grow_Still(bar, framesToGrowIn) == bar

\* Bar.grow(framesToGrowIn)
Grow(bar, framesToGrowIn) ==
    [bar EXCEPT !.height = bar.height + FixDiv(bar.nextHeight - bar.height,
                                               framesToGrowIn)]
\* Bar.isNextHeight(threshold)
IsNextHeight(bar, threshold) == Abs(bar.height - bar.nextHeight) < threshold

\* the bars made by one init and shifted by direct calls of shift()
MaxCycles == 2
ShiftCalls == 33
InitBars ==
    \E cycles \in 1..MaxCycles, default \in BarDefaults :
        LET bars == MakeSinBars(BAR_AMOUNT * cycles, default)
        IN /\ heap = bars
           /\ canvas = [w |-> CYCLE_WIDTH * cycles, h |-> 16]
           /\ circles = <<>>
           /\ cursorPosition = [x |-> 0, y |-> 0]
           /\ removeCount = <<>>
           /\ alreadyCalculated = <<>>
           /\ rafPending = 0
           /\ rng = [seed |-> 0, pos |-> 0]
           /\ lastOp = [NoOp EXCEPT !.kind = "makeSinBars",
                                    !.count = BAR_AMOUNT * cycles]
           /\ history = [origin |-> bars, shifts |-> 0, default |-> default]
           /\ budget = [NoBudget EXCEPT !.calls = ShiftCalls]
CallShift ==
    /\ budget.calls > 0
    /\ heap' = Shift(heap)
    /\ lastOp' = [NoOp EXCEPT !.kind = "shift"]
    /\ history' = [history EXCEPT !.shifts = @ + 1]
    /\ budget' = [budget EXCEPT !.calls = @ - 1]
    /\ UNCHANGED <<canvas, circles, cursorPosition, removeCount, alreadyCalculated,
                   rafPending, rng>>
NextBars == CallShift
SpecBars == InitBars /\ [][NextBars]_vars

\* the frame loop of the sine grapher: main.js grows and tests each bar and
\* then shifts; the earlier main.js tests, shifts and then grows. The window
\* may be resized while the loop runs.
GrowFrames == {1, GROW_FRAMES}
GrowWidths == {520, 700}
InitGrow ==
    \E width \in GrowWidths, frames \in GrowFrames, version \in {"main", "early"} :
        LET bars == MakeSinBars(BAR_AMOUNT * (IF version = "main"
                                              THEN CyclesThatCanFit(width) ELSE 3), 0)
        IN /\ heap = bars
           /\ canvas = [w |-> width, h |-> 16]
           /\ circles = <<>>
           /\ cursorPosition = [x |-> 0, y |-> 0]
           /\ removeCount = <<>>
           /\ alreadyCalculated = <<>>
           /\ rafPending = 1
           /\ rng = [seed |-> 0, pos |-> 0]
           /\ lastOp = [kind |-> "init", shifted |-> FALSE]
           /\ history = [origin |-> [growFrames |-> frames, version |-> version]]
           /\ budget = [NoBudget EXCEPT !.resizes = MaxResizes]
\* update of src/sine_grapher/src/main.js
Update ==
    /\ rafPending > 0
    /\ history.origin.version = "main"
    /\ LET grown == [i \in 1..Len(heap) |-> Grow(heap[i], history.origin.growFrames)]
           allReachedNextHeight ==
               \A i \in 1..Len(grown) : IsNextHeight(grown[i], HEIGHT_THRESHOLD)
       IN /\ heap' = IF allReachedNextHeight THEN Shift(grown) ELSE grown
          /\ lastOp' = [kind |-> "update", shifted |-> allReachedNextHeight]
    /\ rafPending' = rafPending - 1 + 1
    /\ UNCHANGED <<canvas, circles, cursorPosition, removeCount, alreadyCalculated,
                   rng, history, budget>>
\* update of the earlier main.js, which calls growBars after the shift
UpdateEarly ==
    /\ rafPending > 0
    /\ history.origin.version = "early"
    /\ LET allReachedNextHeight ==
               \A i \in 1..Len(heap) : IsNextHeight(heap[i], HEIGHT_THRESHOLD)
           shifted == IF allReachedNextHeight THEN Shift(heap) ELSE heap
       IN /\ heap' = [i \in 1..Len(shifted) |->
                         Grow(shifted[i], history.origin.growFrames)]
          /\ lastOp' = [kind |-> "update", shifted |-> allReachedNextHeight]
    /\ rafPending' = rafPending - 1 + 1
    /\ UNCHANGED <<canvas, circles, cursorPosition, removeCount, alreadyCalculated,
                   rng, history, budget>>
\* the resize listener of main.js: init makes the bars anew
ResizeBars(width) ==
    /\ budget.resizes > 0
    /\ history.origin.version = "main"
    /\ canvas' = [canvas EXCEPT !.w = width]
    /\ heap' = MakeSinBars(BAR_AMOUNT * CyclesThatCanFit(width), 0)
    /\ lastOp' = [kind |-> "init", shifted |-> FALSE]
    /\ budget' = [budget EXCEPT !.resizes = @ - 1]
    /\ UNCHANGED <<circles, cursorPosition, removeCount, alreadyCalculated,
                   rafPending, rng, history>>
NextGrow ==
    \/ Update
    \/ UpdateEarly
    \/ \E width \in GrowWidths : ResizeBars(width)
SpecGrow == InitGrow /\ [][NextGrow]_vars
\* requestAnimationFrame(update) is the last statement of every update, so
\* the browser keeps running frames
SpecGrowFair == SpecGrow /\ WF_vars(Update) /\ WF_vars(UpdateEarly)

\* ----------------------------------------------------------------- claims
\* C1: in every frame every circle that is in one of the three arrays when
\* the frame starts is updated exactly once, in the order of its array, also
\* in frames where Traveling circles arrive and are reclassified.
StmtC1 ==
    LET Members(t) == [i \in 1..Len(lastOp.start[t]) |->
                          [id |-> lastOp.start[t][i], as |-> t]]
    IN lastOp.kind = "tick" =>
          lastOp.updated = Members(AMBIENT) \o Members(ORBITING) \o Members(TRAVELING)

\* C2: at every frame boundary each live circle is in exactly one of the
\* three arrays, once, and the key of that array is its behavior tag.
InvC2 ==
    /\ \A t \in CircleBehavior : \A i, j \in 1..Len(circles[t]) :
          i # j => circles[t][i] # circles[t][j]
    /\ \A t1, t2 \in CircleBehavior :
          t1 # t2 => Range(circles[t1]) \cap Range(circles[t2]) = {}
    /\ \A t \in CircleBehavior : \A id \in Range(circles[t]) : heap[id].behavior = t
WitC2 ==
    /\ \A t \in CircleBehavior : Len(circles[t]) > 0
    /\ lastOp.kind = "tick" /\ Len(lastOp.events) > 0

\* C3: a Traveling circle has a destination; an Orbiting circle owns an
\* orbit and its destination is a point of that orbit; an Ambient circle has
\* a velocity and neither a destination nor an orbit.
InvC3 ==
    \A id \in AllIds(circles) :
        LET c == heap[id]
        IN /\ c.behavior = TRAVELING => c.destination.defined
           /\ c.behavior = ORBITING =>
                 /\ c.orbit.defined
                 /\ c.destination.defined
                 /\ \E i \in 0..(Len(SIN_VALUES) - 1) :
                       c.destination = OrbitPoint(c.orbit, i)
           /\ c.behavior = AMBIENT =>
                 /\ c.dx \in Int /\ c.dy \in Int
                 /\ ~c.destination.defined
                 /\ ~c.orbit.defined
WitC3 ==
    /\ \E id \in Range(circles[ORBITING]) : heap[id].behavior = ORBITING
    /\ \E id \in Range(circles[TRAVELING]) : heap[id].behavior = TRAVELING
    /\ \E id \in Range(circles[AMBIENT]) : heap[id].behavior = AMBIENT
    /\ lastOp.kind = "resize"

\* C4: a circle created Traveling at (0, 0) with destination (10, 10)
\* (threshold 1, divisor 2) is Orbiting after at most four updates and stays
\* so, and the 'changedbehavior' event is raised for it once: never while it
\* travels, exactly once by the time it orbits.
InvC4 ==
    (/\ history.origin.defined
     /\ history.origin.start = Point(0, 0)
     /\ history.origin.dest = Point(10 * SCALE, 10 * SCALE))
    => /\ history.frames >= 4 => heap[1].behavior = ORBITING
       /\ heap[1].behavior \in {TRAVELING, ORBITING}
       /\ heap[1].behavior = TRAVELING => history.notified = 0
       /\ heap[1].behavior = ORBITING => history.notified = 1
WitC4 ==
    /\ history.origin.defined
    /\ history.origin.start = Point(0, 0)
    /\ history.origin.dest = Point(10 * SCALE, 10 * SCALE)
    /\ history.frames > 4
    /\ heap[1].behavior = ORBITING
    /\ history.notified = 1

\* C5: the update in which a Traveling circle arrives leaves it Orbiting,
\* with a new orbit centred on the position it moved to in that update, of a
\* radius in [2, radius + 2), and with the first point got by advancing
\* that orbit as its destination.
StepC5 ==
    [][lastOp'.kind = "tick" =>
         \A i \in DOMAIN lastOp'.events :
            LET id == lastOp'.events[i].detail.circle
                old == heap[id]
                new == heap'[id]
                fresh == [new.orbit EXCEPT !.currentAngleIndex =
                             (new.orbit.currentAngleIndex + Len(SIN_VALUES) - 1)
                                 % Len(SIN_VALUES)]
            IN /\ old.behavior = TRAVELING
               /\ new.behavior = ORBITING
               /\ new.x = old.x + FixDiv(old.destination.x - old.x, TRAVEL_FACTOR_x)
               /\ new.y = old.y + FixDiv(old.destination.y - old.y, TRAVEL_FACTOR_y)
               /\ new.orbit.defined /\ ~old.orbit.defined
               /\ new.orbit.x = new.x /\ new.orbit.y = new.y
               /\ new.orbit.radius >= 2 * SCALE
               /\ new.orbit.radius < new.radius + 2 * SCALE
               /\ new.destination = FollowOrbit(fresh).point
               /\ new.orbit = FollowOrbit(fresh).orbit]_vars
WitC5 ==
    /\ lastOp.kind = "tick"
    /\ \E i \in DOMAIN lastOp.events :
          LET c == heap[lastOp.events[i].detail.circle]
          IN /\ c.behavior = ORBITING
             /\ Point(c.orbit.x, c.orbit.y) # lastOp.events[i].target
             /\ c.orbit.radius > 2 * SCALE

\* C6: when a frame ends, every circle that arrived in it is in the
\* ORBITING array and not in the TRAVELING array, and the next frame updates
\* it as a member of the ORBITING array.
InvC6 ==
    lastOp.kind = "tick" =>
        /\ \A i \in DOMAIN lastOp.events :
              /\ lastOp.events[i].detail.circle \in Range(circles[ORBITING])
              /\ lastOp.events[i].detail.circle \notin Range(circles[TRAVELING])
        /\ \A i \in DOMAIN lastOp.prevEvents :
              /\ [id |-> lastOp.prevEvents[i].detail.circle, as |-> ORBITING]
                    \in Range(lastOp.updated)
              /\ [id |-> lastOp.prevEvents[i].detail.circle, as |-> TRAVELING]
                    \notin Range(lastOp.updated)
WitC6 ==
    /\ lastOp.kind = "tick"
    /\ Len(lastOp.prevEvents) > 0
    /\ Len(lastOp.start[TRAVELING]) > 0

\* C7: a 'changedbehavior' event for a circle that is not in the array of
\* its `from` leaves the three arrays as they were.
StmtC7 ==
    (lastOp.kind = "dispatch" /\ lastOp.events[1].circleIndex < 0)
    => circles = lastOp.start

\* C8: the listener always finds the circle of an event in the array of
\* the event's `from`, also after a Backspace replaced the TRAVELING array.
InvC8 ==
    lastOp.kind = "tick" =>
        \A i \in DOMAIN lastOp.events :
            lastOp.events[i].circleIndex >= 0
WitC8 ==
    /\ history.discarded > 0
    /\ lastOp.kind = "tick"
    /\ Len(lastOp.events) > 0

\* C9: a character keystroke appends to the TRAVELING array one new circle
\* per true cell of the character's mask and nothing else, each of radius 5,
\* Traveling, with the destination of its cell (column and row times the
\* offset, plus the cursor), cell by cell; the count of the cells is
\* returned and pushed on the undo stack.
StepC9 ==
    [][lastOp'.kind = "character" =>
         LET mask == alreadyCalculated'[lastOp'.key]
             cells == {rc \in (1..Len(mask)) \X (1..RasterSide) :
                          /\ rc[2] <= Len(mask[rc[1]])
                          /\ mask[rc[1]][rc[2]] # pixelNotPresent}
             k == Cardinality(cells)
             old == circles[TRAVELING]
             new == circles'[TRAVELING]
             added == {new[j] : j \in (Len(old) + 1)..Len(new)}
             DestinationOf(rc) ==
                Point(((rc[2] - 1) * OFFSET + cursorPosition.x) * SCALE,
                      (canvas.h * SCALE) \div 4
                         + ((rc[1] - 1) * OFFSET + cursorPosition.y) * SCALE)
         IN /\ Len(new) = Len(old) + k
            /\ SubSeq(new, 1, Len(old)) = old
            /\ Cardinality(added) = k
            /\ added \cap AllIds(circles) = {}
            /\ circles'[AMBIENT] = circles[AMBIENT]
            /\ circles'[ORBITING] = circles[ORBITING]
            /\ \A id \in AllIds(circles) : heap'[id] = heap[id]
            /\ \A id \in added :
                  /\ heap'[id].behavior = TRAVELING
                  /\ heap'[id].radius = 5 * SCALE
            /\ {heap'[id].destination : id \in added} = {DestinationOf(rc) : rc \in cells}
            /\ lastOp'.count = k
            /\ removeCount' = Append(removeCount, k)]_vars
WitC9 ==
    /\ lastOp.kind = "character"
    /\ lastOp.count >= 2
    /\ Len(lastOp.start[TRAVELING]) > 0
    /\ Len(removeCount) >= 2
    /\ \E id \in lastOp.spawned : heap[id].destination.x >= 3 * OFFSET * SCALE

\* C10: a Backspace that follows a character keystroke, with only frames
\* between them and all k circles of the keystroke in the ORBITING array,
\* removes exactly those k circles from the ORBITING array, leaves the
\* others in place and order, and pops one entry of the undo stack.
StmtC10 ==
    [][(/\ lastOp'.kind = "backspace"
        /\ history.valid
        /\ history.spawned \subseteq Range(circles[ORBITING]))
       => /\ circles'[ORBITING]
                = SelectSeq(circles[ORBITING], LAMBDA id : id \notin history.spawned)
          /\ Len(removeCount) > 0
          /\ removeCount' = SubSeq(removeCount, 1, Len(removeCount) - 1)]_vars

\* C10, as the code has it: such a Backspace removes the k circles at the
\* tail of the ORBITING array, which are the k that became Orbiting last
\* and need not be those of the keystroke; the others stay in place and
\* order and one entry of the undo stack is popped.
StepC10 ==
    [][(/\ lastOp'.kind = "backspace"
        /\ history.valid
        /\ history.spawned \subseteq Range(circles[ORBITING]))
       => LET k == Cardinality(history.spawned)
          IN /\ k <= Len(circles[ORBITING])
             /\ circles'[ORBITING]
                   = SubSeq(circles[ORBITING], 1, Len(circles[ORBITING]) - k)
             /\ Len(removeCount) > 0
             /\ removeCount[Len(removeCount)] = k
             /\ removeCount' = SubSeq(removeCount, 1, Len(removeCount) - 1)]_vars
WitC10 ==
    /\ lastOp.kind = "backspace"
    /\ lastOp.tracked
    /\ lastOp.spawned # {}
    /\ lastOp.spawned \subseteq Range(lastOp.start[ORBITING])
    /\ Len(circles[ORBITING]) > 0

\* C11: a Backspace that directly follows a character keystroke puts the
\* cursor x back to the value it had before that keystroke.
StmtC11 ==
    [][(lastOp.kind = "character" /\ lastOp'.kind = "backspace")
       => cursorPosition'.x = lastOp.cursor.x]_vars

\* C12: a Backspace leaves the TRAVELING array empty whatever it held, and
\* leaves the AMBIENT array, its circles and the cache of character arrays
\* as they were.
StepC12 ==
    [][lastOp'.kind = "backspace" =>
         /\ circles'[TRAVELING] = <<>>
         /\ circles'[AMBIENT] = circles[AMBIENT]
         /\ \A id \in Range(circles[AMBIENT]) : heap'[id] = heap[id]
         /\ alreadyCalculated' = alreadyCalculated]_vars
WitC12 ==
    /\ lastOp.kind = "backspace"
    /\ Len(lastOp.start[TRAVELING]) > lastOp.count
    /\ lastOp.count > 0
    /\ Len(lastOp.start[AMBIENT]) > 0
    /\ circles[TRAVELING] = <<>>

\* C13: a Backspace that pops the count n removes min(n, |ORBITING|)
\* circles from the ORBITING array, the ones at its tail, and keeps the
\* others in order, also when n is larger than the array.
StmtC13 ==
    lastOp.kind = "backspace" =>
        LET old == lastOp.start[ORBITING]
            m == IF lastOp.count < Len(old) THEN lastOp.count ELSE Len(old)
        IN circles[ORBITING] = SubSeq(old, 1, Len(old) - m)

\* C14: when a character keystroke returns, the cursor x is not beyond the
\* right margin: if the advance by the mask width times 6 takes x to the
\* margin (500 short of the window width) or past it, x is 0 and y grew by
\* the line height (8 per mask row); otherwise x is advanced and y is
\* unchanged.
StmtC14 ==
    [][lastOp'.kind = "character" =>
         LET mask == alreadyCalculated'[lastOp'.key]
             advanced == cursorPosition.x + Len(mask[1]) * 6
         IN IF advanced >= canvas.w - 500
            THEN /\ cursorPosition'.x = 0
                 /\ cursorPosition'.y = cursorPosition.y + Len(mask) * 8
            ELSE /\ cursorPosition'.x = advanced
                 /\ cursorPosition'.y = cursorPosition.y]_vars

\* C15: a resize makes the AMBIENT array exactly the configured number of
\* Ambient circles, each with a radius in RADIUS_BOUNDS and a centre at
\* least its radius away from every side of the new canvas, and leaves the
\* ORBITING and TRAVELING arrays and their circles as they were.
StepC15 ==
    [][lastOp'.kind = "resize" =>
         /\ Len(circles'[AMBIENT]) = AmbientCount
         /\ Cardinality(Range(circles'[AMBIENT])) = AmbientCount
         /\ \A id \in Range(circles'[AMBIENT]) :
               LET c == heap'[id]
               IN /\ c.behavior = AMBIENT
                  /\ c.radius >= RADIUS_BOUNDS_min * SCALE
                  /\ c.radius <= RADIUS_BOUNDS_max * SCALE
                  /\ c.radius <= c.x /\ c.x <= canvas'.w * SCALE - c.radius
                  /\ c.radius <= c.y /\ c.y <= canvas'.h * SCALE - c.radius
         /\ circles'[ORBITING] = circles[ORBITING]
         /\ circles'[TRAVELING] = circles[TRAVELING]
         /\ \A id \in Range(circles[ORBITING]) \cup Range(circles[TRAVELING]) :
               heap'[id] = heap[id]]_vars
WitC15 ==
    /\ lastOp.kind = "resize"
    /\ canvas = [w |-> 40, h |-> 32]
    /\ Len(circles[ORBITING]) > 0
    /\ Len(circles[TRAVELING]) > 0
    /\ Len(circles[AMBIENT]) = AmbientCount

\* C16: the AMBIENT array holds the configured number of circles in every
\* state: frames, keystrokes, backspaces and reclassifications neither add
\* to it nor remove from it.
InvC16 == Len(circles[AMBIENT]) = AmbientCount
WitC16 ==
    /\ lastOp.kind = "backspace"
    /\ history.notified > 0
    /\ history.frames > 1
    /\ lastOp.count > 0
    /\ Len(circles[AMBIENT]) = AmbientCount

\* C17: after every update in a window of fixed size the centre of an
\* Ambient circle is at least its radius away from every side of the canvas.
StmtC17 ==
    \A id \in Range(circles[AMBIENT]) :
        LET c == heap[id]
        IN /\ c.radius <= c.x /\ c.x <= canvas.w * SCALE - c.radius
           /\ c.radius <= c.y /\ c.y <= canvas.h * SCALE - c.radius

\* C17, as the code has it: an update may carry the centre out of that
\* range, by at most one step of the velocity; a centre that is out of
\* the range on an axis before an update is back in it after the update,
\* so the circle never stays outside.
StepC17 ==
    [][lastOp'.kind = "tick" =>
         \A id \in Range(circles[AMBIENT]) :
            LET c == heap[id]
                n == heap'[id]
                w == canvas.w * SCALE
                h == canvas.h * SCALE
            IN /\ n.radius = c.radius
               /\ n.radius - Abs(n.dx) <= n.x /\ n.x <= w - n.radius + Abs(n.dx)
               /\ n.radius - Abs(n.dy) <= n.y /\ n.y <= h - n.radius + Abs(n.dy)
               /\ (c.x < c.radius \/ c.x > w - c.radius)
                     => (n.radius <= n.x /\ n.x <= w - n.radius)
               /\ (c.y < c.radius \/ c.y > h - c.radius)
                     => (n.radius <= n.y /\ n.y <= h - n.radius)]_vars
WitC17 ==
    /\ lastOp.kind = "tick"
    /\ history.frames > 2
    /\ \E id \in Range(circles[AMBIENT]) :
          LET c == heap[id]
              p == lastOp.start
          IN /\ c.radius <= c.y /\ c.y <= canvas.h * SCALE - c.radius
             /\ c.radius <= c.x /\ c.x <= canvas.w * SCALE - c.radius
             /\ (c.y - c.dy < c.radius \/ c.y - c.dy > canvas.h * SCALE - c.radius
                 \/ c.x - c.dx < c.radius \/ c.x - c.dx > canvas.w * SCALE - c.radius)

\* C18: 16 calls of followOrbit after construction bring the angle index
\* back to 0, and the next 16 calls return the points of the first 16.
StmtC18 ==
    /\ Len(lastOp.updated) = Len(SIN_VALUES) => heap[1].orbit.currentAngleIndex = 0
    /\ \A i \in 1..Len(SIN_VALUES) :
          i + Len(SIN_VALUES) <= Len(lastOp.updated)
             => lastOp.updated[i + Len(SIN_VALUES)] = lastOp.updated[i]

\* C18, as the code has it: 16 calls of followOrbit bring the angle index
\* back to the index the constructor gave the orbit (0 in Orbit.js, a random
\* index in the later version), and the next 16 calls return the points of
\* the first 16.
InvC18 ==
    history.origin.defined =>
        /\ Len(lastOp.updated) % Len(SIN_VALUES) = 0
              => heap[1].orbit.currentAngleIndex = history.origin.orbit.currentAngleIndex
        /\ \A i \in 1..Len(lastOp.updated) :
              i + Len(SIN_VALUES) <= Len(lastOp.updated)
                 => lastOp.updated[i + Len(SIN_VALUES)] = lastOp.updated[i]
WitC18 ==
    /\ lastOp.kind = "followOrbit"
    /\ Len(lastOp.updated) = 2 * Len(SIN_VALUES)
    /\ history.origin.orbit.currentAngleIndex > 0
    /\ heap[1].orbit.currentAngleIndex = history.origin.orbit.currentAngleIndex
    /\ lastOp.updated[1] # lastOp.updated[2]

\* C19: the columns of the array returned for a glyph with ink are those
\* from the leftmost column with ink in any of its rows to the rightmost
\* column with ink in any of its rows, whatever the rows' order.
StmtC19 ==
    lastOp.kind = "getArrayFor" =>
        LET image == history.origin.image
            mask == alreadyCalculated[lastOp.key]
            Cell(r, c) == image[(r - 1) * RasterSide + c] = 255
            inkColumns == {c \in 1..RasterSide : \E r \in 1..Len(mask) : Cell(r, c)}
        IN inkColumns # {} =>
              LET lo == CHOOSE c \in inkColumns : \A d \in inkColumns : c <= d
                  hi == CHOOSE c \in inkColumns : \A d \in inkColumns : c >= d
              IN \A r \in 1..Len(mask) :
                    mask[r] = [j \in 1..(hi - lo + 1) |->
                                  IF Cell(r, lo + j - 1) THEN pixelPresent
                                  ELSE pixelNotPresent]

\* C20: for a character that draws no ink (a space) the character array
\* is returned without an error and has no column (every row is empty), and
\* the keystroke makes no circle.
StmtC20 ==
    (lastOp.kind = "character" /\ lastOp.key = " ") =>
        /\ ~lastOp.threw
        /\ \A r \in 1..Len(alreadyCalculated[" "]) : alreadyCalculated[" "][r] = <<>>
        /\ lastOp.count = 0
        /\ lastOp.spawned = {}

\* C21: an entry of the cache is never replaced, changed or removed; a
\* getArrayFor call for a character that is in the cache returns the cached
\* array, the one the first call returned, without drawing the character
\* again, whatever calls were made in between.
StepC21 ==
    [][/\ \A ch \in DOMAIN alreadyCalculated :
              /\ ch \in DOMAIN alreadyCalculated'
              /\ alreadyCalculated'[ch] = alreadyCalculated[ch]
       /\ lastOp'.kind = "character" =>
              /\ lastOp'.array = alreadyCalculated'[lastOp'.key]
              /\ lastOp'.key \in DOMAIN alreadyCalculated =>
                     /\ ~lastOp'.rendered
                     /\ lastOp'.array = alreadyCalculated[lastOp'.key]]_vars
WitC21 ==
    /\ lastOp.kind = "character" /\ lastOp.key = " " /\ ~lastOp.rendered
    /\ removeCount = <<0, 3, 0>>
    /\ {"r", " "} \subseteq DOMAIN alreadyCalculated

StmtC23 ==
    [][lastOp'.kind = "setBehavior" =>
          /\ lastOp'.args[1] \notin CircleBehavior => lastOp'.threw
          /\ lastOp'.threw =>
                 /\ heap'[1].behavior = heap[1].behavior
                 /\ heap'[1].orbit = heap[1].orbit
                 /\ heap'[1].destination = heap[1].destination]_vars

\* C24: update of an Ambient circle throws when a bound is missing and then
\* leaves its position and velocity as they were; update of a Traveling
\* circle that has a destination and of an Orbiting circle that has an orbit
\* does not throw when no bound is given, and moves the circle as it does
\* with bounds.
StepC24 ==
    [][(/\ lastOp'.kind = "update"
        /\ (lastOp'.args[1].w = 0 \/ lastOp'.args[1].h = 0)) =>
          /\ heap[1].behavior = AMBIENT =>
                 /\ lastOp'.threw
                 /\ heap'[1].x = heap[1].x /\ heap'[1].y = heap[1].y
                 /\ heap'[1].dx = heap[1].dx /\ heap'[1].dy = heap[1].dy
          /\ (heap[1].behavior = TRAVELING /\ heap[1].destination.defined) =>
                 /\ ~lastOp'.threw
                 /\ heap'[1].x = TravelMove(heap[1]).x
                 /\ heap'[1].y = TravelMove(heap[1]).y
          /\ (heap[1].behavior = ORBITING /\ heap[1].orbit.defined) =>
                 /\ ~lastOp'.threw
                 /\ heap'[1] = HandleOrbiting(heap[1])]_vars
WitC24 ==
    /\ lastOp.kind = "update" /\ lastOp.args[1] = [w |-> 520, h |-> 0]
    /\ lastOp.threw
    /\ heap[1].behavior = AMBIENT
    /\ heap[1].orbit.defined

\* C25: update of a Traveling circle that has no destination, and of an
\* Orbiting circle that has no orbit, throws, and the circle, with its
\* position and behavior, and the three arrays are as they were.
StepC25 ==
    [][(/\ lastOp'.kind = "update"
        /\ \/ heap[1].behavior = TRAVELING /\ ~heap[1].destination.defined
           \/ heap[1].behavior = ORBITING /\ ~heap[1].orbit.defined) =>
          /\ lastOp'.threw
          /\ heap' = heap
          /\ circles' = circles]_vars
WitC25 ==
    /\ lastOp.kind = "update" /\ lastOp.threw
    /\ heap[1].behavior = ORBITING /\ ~heap[1].orbit.defined
    /\ heap[1].destination.defined

InvC27 ==
    /\ rafPending = 1
    /\ lastOp.kind = "tick" => ~lastOp.threw
WitC27 ==
    /\ lastOp.kind = "tick" /\ ~lastOp.threw /\ rafPending = 1
    /\ history.frames >= 3
    /\ Len(lastOp.events) > 0
    /\ canvas = [w |-> 40, h |-> 32]

\* C28: a constructor call or a setBehavior call that returns normally and
\* leaves the circle Orbiting leaves it with an orbit and with a destination
\* that is a point of that orbit; when setOrbit was true the orbit is
\* centred on the position of the circle.
StmtC28 ==
    (/\ lastOp.kind \in {"new", "setBehavior"} /\ ~lastOp.threw
     /\ heap[1].behavior = ORBITING) =>
        /\ heap[1].orbit.defined
        /\ heap[1].destination.defined
        /\ \E i \in 0..(Len(SIN_VALUES) - 1) :
              heap[1].destination = OrbitPoint(heap[1].orbit, i)
        /\ (lastOp.kind = "setBehavior" /\ lastOp.args[2]) =>
              /\ heap[1].orbit.x = heap[1].x
              /\ heap[1].orbit.y = heap[1].y

\* C29: a followOrbit call returns the point of the index the orbit held
\* before the call and leaves the index one higher, or 0 after the last of
\* the 16 samples; the index is always an integer in 0..15, and the call
\* changes neither the centre nor the radius and does not throw.
StepC29 ==
    [][lastOp'.kind = "followOrbit" =>
          LET before == heap[1].orbit
              after == heap'[1].orbit
              i == before.currentAngleIndex
          IN /\ i \in 0..15
             /\ lastOp'.updated[Len(lastOp'.updated)] = OrbitPoint(before, i)
             /\ after.currentAngleIndex = IF i = 15 THEN 0 ELSE i + 1
             /\ after.currentAngleIndex \in 0..15
             /\ after.x = before.x /\ after.y = before.y
             /\ after.radius = before.radius
             /\ ~lastOp'.threw]_vars
WitC29 ==
    /\ lastOp.kind = "followOrbit"
    /\ history.origin.orbit.currentAngleIndex = 12
    /\ Len(lastOp.updated) = 4
    /\ heap[1].orbit.currentAngleIndex = 0

\* C30: the orbit of every Orbiting circle has a travel factor that is an
\* integer of at least 1 within ORBIT_TRAVEL_FACTOR, every frame moves the
\* circle by the remaining distance divided by that factor on each axis, and
\* its position is a number afterwards.
StmtC30 ==
    [][lastOp'.kind = "tick" =>
          \A id \in Range(circles[ORBITING]) :
              LET c == heap[id]
                  after == heap'[id]
              IN /\ "travelFactor" \in DOMAIN c.orbit
                 /\ c.orbit.travelFactor \in
                        ORBIT_TRAVEL_FACTOR_min..ORBIT_TRAVEL_FACTOR_max
                 /\ c.orbit.travelFactor >= 1
                 /\ after.x = c.x + FixDiv(c.destination.x - c.x, c.orbit.travelFactor)
                 /\ after.y = c.y + FixDiv(c.destination.y - c.y, c.orbit.travelFactor)
                 /\ after.x # NaN /\ after.y # NaN]_vars

\* C31: a frame leaves an Ambient circle Ambient and an Orbiting circle
\* Orbiting, with the centre and radius of its orbit unchanged and with a
\* destination that is one of the 16 points of that orbit; the destination
\* changes exactly in the updates that end within the threshold of it, and
\* then the new destination is the point the next followOrbit call returns.
StepC31 ==
    [][lastOp'.kind = "tick" =>
          \A id \in AllIds(circles) :
              LET c == heap[id]
                  after == heap'[id]
                  arrived == HasReacedDestination(
                                 [after EXCEPT !.destination = c.destination])
              IN /\ c.behavior = AMBIENT => after.behavior = AMBIENT
                 /\ c.behavior = ORBITING =>
                        /\ after.behavior = ORBITING
                        /\ after.orbit.x = c.orbit.x /\ after.orbit.y = c.orbit.y
                        /\ after.orbit.radius = c.orbit.radius
                        /\ \E i \in 0..(Len(SIN_VALUES) - 1) :
                               after.destination = OrbitPoint(after.orbit, i)
                        /\ after.destination # c.destination => arrived
                        /\ arrived => after.destination = FollowOrbit(c.orbit).point
                        /\ ~arrived => after.orbit = c.orbit]_vars
WitC31 ==
    /\ lastOp.kind = "tick"
    /\ \E id \in Range(lastOp.start[ORBITING]) \cap Range(circles[ORBITING]) :
          LET c == heap[id]
              held == (c.orbit.currentAngleIndex + Len(SIN_VALUES) - 2) % Len(SIN_VALUES)
          IN /\ HasReacedDestination([c EXCEPT !.destination = OrbitPoint(c.orbit, held)])
             /\ ~HasReacedDestination(c)
    /\ Len(circles[AMBIENT]) > 0

\* C32: the array returned for a glyph has one row for every pixel row of
\* the raster surface, and all of its rows have the same length.
StmtC32 ==
    lastOp.kind = "getArrayFor" =>
        /\ Len(lastOp.array) = RasterSide
        /\ \A r \in 1..Len(lastOp.array) :
              Len(lastOp.array[r]) = Len(lastOp.array[1])

\* C33: the array returned for a glyph has as many true cells as the raster
\* has ink pixels, and its cell (r, c) is true exactly when the raster has
\* ink in row r, c columns right of its leftmost ink column.
StmtC33 ==
    lastOp.kind = "getArrayFor" =>
        LET image == history.origin.image
            mask == lastOp.array
            InkAt(r, c) == image[(r - 1) * RasterSide + c] = 255
            inkPixels == {i \in 1..Len(image) : image[i] = 255}
            inkColumns == {c \in 1..RasterSide : \E r \in 1..RasterSide : InkAt(r, c)}
            trueCells == {rc \in (1..RasterSide) \X (1..RasterSide) :
                             /\ rc[1] <= Len(mask)
                             /\ rc[2] <= Len(mask[rc[1]])
                             /\ mask[rc[1]][rc[2]] # 0}
        IN /\ Cardinality(trueCells) = Cardinality(inkPixels)
           /\ inkColumns # {} =>
                 LET lo == CHOOSE c \in inkColumns : \A d \in inkColumns : c <= d
                 IN \A r \in 1..RasterSide, c \in 1..RasterSide :
                       InkAt(r, c) <=> <<r, c - lo + 1>> \in trueCells

\* C34: the TRAVELING and ORBITING arrays together never hold more circles
\* than the counts on the undo stack add up to; with an empty undo stack both
\* arrays are empty.
StmtC34 ==
    LET RECURSIVE Sum(_)
        Sum(stack) == IF stack = <<>> THEN 0 ELSE stack[1] + Sum(Tail(stack))
    IN /\ Len(circles[TRAVELING]) + Len(circles[ORBITING]) <= Sum(removeCount)
       /\ removeCount = <<>> => circles[TRAVELING] = <<>> /\ circles[ORBITING] = <<>>

\* C35: the x offset of the cursor is never negative, and a Backspace pressed
\* while the undo stack is empty leaves the cursor, the ORBITING array and
\* the undo stack as they were.
StmtC35 ==
    [][/\ cursorPosition'.x >= 0
       /\ (lastOp'.kind = "backspace" /\ removeCount = <<>>) =>
              /\ cursorPosition' = cursorPosition
              /\ circles'[ORBITING] = circles[ORBITING]
              /\ removeCount' = removeCount]_vars

\* C36: in one frame no circle is updated twice: the ids logged by the
\* frame are pairwise different, and a circle that arrived in the frame (it
\* moved from TRAVELING to ORBITING) was updated only as a member of the
\* TRAVELING array, the ORBITING array having been walked before.
InvC36 ==
    lastOp.kind = "tick" =>
        /\ \A i, j \in 1..Len(lastOp.updated) :
              i # j => lastOp.updated[i].id # lastOp.updated[j].id
        /\ \A e \in 1..Len(lastOp.events) :
              \A i \in 1..Len(lastOp.updated) :
                 lastOp.updated[i].id = lastOp.events[e].detail.circle =>
                    lastOp.updated[i].as = TRAVELING
WitC36 ==
    /\ lastOp.kind = "tick"
    /\ Len(lastOp.events) > 0
    /\ Len(lastOp.start[ORBITING]) > 0
    /\ \E i \in 1..Len(lastOp.updated) : lastOp.updated[i].as = ORBITING

\* C37: one Ambient update negates dx exactly when x + radius has reached the
\* horizontal bound or x - radius has reached 0, negates dy exactly when
\* y + radius has reached the vertical bound or y - radius has reached 0,
\* each axis by its own test, and then adds the resulting velocity to the
\* position.
StepC37 ==
    [][lastOp'.kind = "tick" =>
         \A i \in 1..Len(lastOp'.updated) :
            LET id == lastOp'.updated[i].id
                c == heap[id]
                d == heap'[id]
                hitX == c.x + c.radius >= canvas.w * SCALE \/ c.x - c.radius <= 0
                hitY == c.y + c.radius >= canvas.h * SCALE \/ c.y - c.radius <= 0
            IN c.behavior = AMBIENT =>
                 /\ d.dx = (IF hitX THEN -c.dx ELSE c.dx)
                 /\ d.dy = (IF hitY THEN -c.dy ELSE c.dy)
                 /\ d.x = c.x + d.dx
                 /\ d.y = c.y + d.dy]_vars
\* a frame has just moved an Ambient circle that was at a horizontal bound and
\* clear of the vertical ones (its position before the frame is x - dx, y - dy)
WitC37 ==
    /\ lastOp.kind = "tick"
    /\ \E i \in 1..Len(lastOp.updated) :
          LET d == heap[lastOp.updated[i].id]
              px == d.x - d.dx
              py == d.y - d.dy
          IN /\ d.behavior = AMBIENT
             /\ d.dx # 0
             /\ d.dy # 0
             /\ px + d.radius >= canvas.w * SCALE \/ px - d.radius <= 0
             /\ ~(py + d.radius >= canvas.h * SCALE \/ py - d.radius <= 0)

\* C38: shift() gives bar i the nextHeight bar i - 1 had and bar 0 the one
\* the last bar had, changes no height, keeps the multiset of the nextHeight
\* values, and after as many calls as there are bars every bar has the
\* nextHeight it was made with.
StepC38 ==
    [][lastOp'.kind = "shift" =>
         LET n == Len(heap)
             Count(bars, v) == Cardinality({i \in 1..Len(bars) : bars[i].nextHeight = v})
         IN /\ Len(heap') = n
            /\ \A i \in 1..n :
                  /\ heap'[i].height = heap[i].height
                  /\ heap'[i].nextHeight =
                        heap[IF i = 1 THEN n ELSE i - 1].nextHeight
            /\ \A i \in 1..n :
                  Count(heap', heap[i].nextHeight) = Count(heap, heap[i].nextHeight)
            /\ history'.shifts % n = 0 => heap' = history'.origin]_vars
WitC38 ==
    /\ lastOp.kind = "shift"
    /\ history.shifts = Len(heap)
    /\ heap = history.origin
    /\ \E i \in 1..Len(heap) : heap[i].nextHeight # heap[1].nextHeight

\* C39: a frame of the sine grapher moves every bar by
\* (nextHeight - height) / GROW_FRAMES, executes shift() only if every bar is
\* within HEIGHT_THRESHOLD of its nextHeight in that frame (the nextHeight
\* values change in no other frame), and shift() is executed infinitely often.
LiveC39 ==
    /\ [][lastOp'.kind = "update" =>
            LET n == Len(heap)
                main == history.origin.version = "main"
            IN /\ Len(heap') = n
               /\ \A i \in 1..n :
                     heap'[i].height = heap[i].height +
                        FixDiv((IF main THEN heap[i].nextHeight
                                ELSE heap'[i].nextHeight) - heap[i].height,
                               history.origin.growFrames)
               /\ lastOp'.shifted =>
                     \A i \in 1..n :
                        Abs((IF main THEN heap'[i].height ELSE heap[i].height)
                            - heap[i].nextHeight) < HEIGHT_THRESHOLD
               /\ (\E i \in 1..n : heap'[i].nextHeight # heap[i].nextHeight) =>
                     lastOp'.shifted]_vars
    /\ []<>(lastOp.kind = "update" /\ lastOp.shifted)
\* a second shift: bar 0 received what the bar before the last one was made
\* with
WitC39 ==
    /\ lastOp.kind = "update"
    /\ lastOp.shifted
    /\ history.origin.growFrames = GROW_FRAMES
    /\ heap[1].nextHeight = SinValue(Len(SIN_VALUES) - 1)

\* C40: makeSinBars(amount) returns amount bars, bar i with the height
\* SIN_VALUES[i mod 16] and with a nextHeight that is a number and equals
\* SIN_VALUES[(i + 1) mod 16], the last bar of a cycle included.
StmtC40 ==
    lastOp.kind = "makeSinBars" =>
        /\ Len(heap) = lastOp.count
        /\ \A i \in 1..Len(heap) :
              /\ heap[i].height = SinValue((i - 1) % Len(SIN_VALUES))
              /\ heap[i].nextHeight # UndefinedHeight
              /\ heap[i].nextHeight = SinValue(i % Len(SIN_VALUES))

====
